---- MODULE Spec2Model ----
(***************************************************************************)
(* Model of src/taxi_demand_predictor/src/data.py: the month filter        *)
(* (validate_raw_data), the slot densifier (add_missing_slots), the cutoff *)
(* scan (get_cutoff_indices_features_and_target) and the window slicer     *)
(* (transform_ts_data_into_features_and_target).                           *)
(*                                                                         *)
(* Hours are integers (hour number since an epoch), so pd.date_range with  *)
(* freq='H' is an integer interval.  Row indices keep Python's 0-based     *)
(* values; sequences are 1-based, so iloc[a:b] is SubSeq(s, a + 1, b).     *)
(***************************************************************************)
EXTENDS Integers, Sequences, FiniteSets, TLC

VARIABLES
    pc,                \* position of the running call
    call,              \* the function the caller invoked
    error,             \* "none", or the exception that ended the call
    year, month,       \* validate_raw_data: arguments
    raw_file,          \* validate_raw_data: rows of the month's parquet file
    rides,             \* validate_raw_data: the frame, filtered in place
    agg_rides,         \* add_missing_slots: argument
    output,            \* add_missing_slots: result
    ts_data,           \* slicer: argument [columns, rows]
    input_seq_len,     \* slicer / cutoff scan: argument
    step_size,         \* slicer / cutoff scan: argument
    location_ids,      \* slicer: ts_data['pickup_location_id'].unique()
    loc_pos,           \* slicer: number of locations already processed
    data,              \* cutoff scan: the series being scanned
    stop_position,     \* cutoff scan locals
    subseq_first_idx,
    subseq_mid_idx,
    subseq_last_idx,
    indices,
    features,          \* slicer: accumulated feature rows
    targets            \* slicer: accumulated targets

vars == <<pc, call, error, year, month, raw_file, rides, agg_rides, output, ts_data,
          input_seq_len, step_size, location_ids, loc_pos, data,
          stop_position, subseq_first_idx, subseq_mid_idx, subseq_last_idx,
          indices, features, targets>>

-----------------------------------------------------------------------------
(* Bounds of the model *)

MaxHour == 3          \* pickup hours are 0..MaxHour
MaxRows == 2          \* rows of an enumerated input table
MaxRawRows == 2       \* rows of an enumerated raw month file
MaxSeqLen == 3        \* input_seq_len is 1..MaxSeqLen
MaxStep == 2          \* step_size is 1..MaxStep
MaxLen == 7           \* length of a series handed to the cutoff scan directly

Hours == 0..MaxHour
LocationIds == {7, 42}
\* 16777217 = 2^24 + 1 is the smallest count a float32 cannot hold
RideVals == {4, 6, 16777217}
Years == {2022}
Months == 1..12

-----------------------------------------------------------------------------
(* Generic helpers *)

Min(S) == CHOOSE x \in S : \A y \in S : x <= y
Max(S) == CHOOSE x \in S : \A y \in S : x >= y

RECURSIVE SumSeq(_)
SumSeq(s) == IF s = <<>> THEN 0 ELSE Head(s) + SumSeq(Tail(s))

RECURSIVE UniqueFrom(_, _)
UniqueFrom(s, seen) ==
    IF s = <<>> THEN <<>>
    ELSE IF Head(s) \in seen THEN UniqueFrom(Tail(s), seen)
    ELSE <<Head(s)>> \o UniqueFrom(Tail(s), seen \cup {Head(s)})

\* Series.unique(): the distinct values in order of first appearance
Unique(s) == UniqueFrom(s, {})

Column(rows, name) == [i \in DOMAIN rows |-> rows[i][name]]

-----------------------------------------------------------------------------
(* validate_raw_data *)

NaT == [y |-> 0, m |-> 0, d |-> 0]

\* pandas parses the limit string "YYYY-MM-01" when it is compared with the
\* datetime column; a month number outside 1..12 does not parse.
ParseLimit(y, m) == [valid |-> m \in 1..12, y |-> y, m |-> m, d |-> 1]

\* f"{year}-{month:02d}-01"
YearMonthStartLimit(y, m) == ParseLimit(y, m)

\* f"{year}-{month+1:02d}-01"
YearMonthFinalLimit(y, m) == ParseLimit(y, m + 1)

Before(t, u) ==
    \/ t.y < u.y
    \/ t.y = u.y /\ t.m < u.m
    \/ t.y = u.y /\ t.m = u.m /\ t.d < u.d

\* a comparison with NaT is False
AtOrAfter(t, lim) == t # NaT /\ ~Before(t, lim)
StrictlyBefore(t, lim) == t # NaT /\ Before(t, lim)

KeepFrom(rows, lim) ==
    LET ok(r) == AtOrAfter(r.pickup_datetime, lim) IN SelectSeq(rows, ok)
KeepBefore(rows, lim) ==
    LET ok(r) == StrictlyBefore(r.pickup_datetime, lim) IN SelectSeq(rows, ok)

Timestamps ==
    {[y |-> y, m |-> m, d |-> d] :
        y \in {2022, 2023}, m \in {1, 2, 11, 12}, d \in {1, 15}} \cup {NaT}

RawRow == [pickup_datetime : Timestamps, pickup_location_id : {42}]

RawFiles == UNION {[1..n -> RawRow] : n \in 0..MaxRawRows}

ValidateRawData ==
    /\ pc = "start" /\ call = "validate_raw_data"
    /\ LET lo == YearMonthStartLimit(year, month)
           hi == YearMonthFinalLimit(year, month)
           read == raw_file                     \* pd.read_parquet
       IN IF ~lo.valid
          THEN error' = "TypeError" /\ rides' = read
          ELSE IF ~hi.valid
          THEN error' = "TypeError" /\ rides' = KeepFrom(read, lo)
          ELSE error' = "none" /\ rides' = KeepBefore(KeepFrom(read, lo), hi)
    /\ pc' = "done"
    /\ UNCHANGED <<call, year, month, raw_file, agg_rides, output, ts_data,
                   input_seq_len, step_size, location_ids, loc_pos, data,
                   stop_position, subseq_first_idx, subseq_mid_idx,
                   subseq_last_idx, indices, features, targets>>

-----------------------------------------------------------------------------
(* add_missing_slots *)

Row == [pickup_hour : Hours, pickup_location_id : LocationIds, rides : RideVals]

RowLeq(a, b) ==
    \/ a.pickup_hour < b.pickup_hour
    \/ a.pickup_hour = b.pickup_hour /\ a.pickup_location_id <= b.pickup_location_id

\* Tables in the row order groupby(['pickup_hour', 'pickup_location_id'])
\* leaves them in; a (hour, location) pair may repeat.
Tables ==
    {t \in UNION {[1..n -> Row] : n \in 0..MaxRows} :
        \A i \in 1..(Len(t) - 1) : RowLeq(t[i], t[i + 1])}

FullRangeFirstLocation(agg) ==
    LET first == agg[1].pickup_location_id
        hs == {agg[i].pickup_hour : i \in {j \in DOMAIN agg :
                                           agg[j].pickup_location_id = first}}
    IN [i \in 1..(Max(hs) - Min(hs) + 1) |-> Min(hs) + i - 1]

\* pd.date_range(min, max, freq='H') over the whole table
FullRange(agg) ==
    LET hs == {agg[i].pickup_hour : i \in DOMAIN agg}
    IN [i \in 1..(Max(hs) - Min(hs) + 1) |-> Min(hs) + i - 1]

\* agg_rides.loc[agg_rides.pickup_location_id == location_id, ['pickup_hour', 'rides']]
RowsOfLocation(rows, loc) ==
    LET ok(r) == r.pickup_location_id = loc
        sel == SelectSeq(rows, ok)
    IN [i \in DOMAIN sel |-> [pickup_hour |-> sel[i].pickup_hour,
                              rides |-> sel[i].rides]]

HasDuplicateHours(rows_i) ==
    \E i, j \in DOMAIN rows_i : i # j /\ rows_i[i].pickup_hour = rows_i[j].pickup_hour

ReindexForwardFill(rows_i, full_range) ==
    [j \in DOMAIN full_range |->
        LET at == {i \in DOMAIN rows_i : rows_i[i].pickup_hour <= full_range[j]}
        IN [pickup_hour |-> full_range[j],
            rides |-> IF at = {} THEN 0
                      ELSE rows_i[CHOOSE i \in at :
                              \A k \in at : rows_i[k].pickup_hour
                                              <= rows_i[i].pickup_hour].rides]]

\* agg_rides_i.reindex(full_range, fill_value=0)
Reindex(rows_i, full_range) ==
    [j \in DOMAIN full_range |->
        LET at == {i \in DOMAIN rows_i : rows_i[i].pickup_hour = full_range[j]}
        IN [pickup_hour |-> full_range[j],
            rides |-> IF at = {} THEN 0 ELSE rows_i[CHOOSE i \in at : TRUE].rides]]

\* one pass of the loop body: reindex and add back the location column
DensifyLocation(agg, loc, full_range) ==
    LET re == Reindex(RowsOfLocation(agg, loc), full_range)
    IN [j \in DOMAIN re |-> [pickup_hour |-> re[j].pickup_hour,
                             rides |-> re[j].rides,
                             pickup_location_id |-> loc]]

RECURSIVE ConcatLocations(_, _, _)
ConcatLocations(agg, locs, full_range) ==
    IF locs = <<>> THEN <<>>
    ELSE DensifyLocation(agg, Head(locs), full_range)
            \o ConcatLocations(agg, Tail(locs), full_range)

AddMissingSlots ==
    /\ pc = "start" /\ call = "add_missing_slots"
    /\ LET locs == Unique(Column(agg_rides, "pickup_location_id"))
       IN IF agg_rides = <<>>
          THEN \* min() and max() are NaT and pd.date_range rejects them
               /\ error' = "ValueError" /\ output' = <<>> /\ pc' = "done"
          ELSE IF \E i \in DOMAIN locs :
                     HasDuplicateHours(RowsOfLocation(agg_rides, locs[i]))
          THEN \* reindex refuses an index with duplicate labels
               /\ error' = "ValueError" /\ output' = <<>> /\ pc' = "done"
          ELSE /\ error' = "none"
               /\ output' = ConcatLocations(agg_rides, locs, FullRange(agg_rides))
               /\ pc' = "densified"
    /\ UNCHANGED <<call, year, month, raw_file, rides, agg_rides, ts_data,
                   input_seq_len, step_size, location_ids, loc_pos, data,
                   stop_position, subseq_first_idx, subseq_mid_idx,
                   subseq_last_idx, indices, features, targets>>

-----------------------------------------------------------------------------
(* get_cutoff_indices_features_and_target *)

\* the value np.float32 stores for a non-negative integer: 24 significant
\* bits, round half to even
RECURSIVE Ulp(_, _)
Ulp(v, u) == IF v < 16777216 * u THEN u ELSE Ulp(v, 2 * u)

Float32(v) ==
    LET u == Ulp(v, 1)
        q == v \div u
        r == v % u
    IN IF 2 * r < u THEN q * u
       ELSE IF 2 * r > u THEN (q + 1) * u
       ELSE IF q % 2 = 0 THEN q * u ELSE (q + 1) * u

StopAtLength(series) == Len(series)

\* stop_position = len(data) - 1
StopPosition(series) == Len(series) - 1

\* subseq_mid_idx = input_seq_len
SubseqMidInit(n) == n

\* subseq_last_idx = input_seq_len + 1
SubseqLastInit(n) == n + 1

LoopConditionStrict(last, stop) == last < stop

LoopConditionPastEnd(last, stop) == last <= stop + 1

\* while subseq_last_idx <= stop_position
LoopCondition(last, stop) == last <= stop

AdvanceByOne(idx, step) == idx + 1

\* subseq_*_idx += step_size
Advance(idx, step) == idx + step

\* lines 123-129 for the series d
EnterScan(d) ==
    /\ data' = d
    /\ stop_position' = StopPosition(d)
    /\ subseq_first_idx' = 0
    /\ subseq_mid_idx' = SubseqMidInit(input_seq_len)
    /\ subseq_last_idx' = SubseqLastInit(input_seq_len)
    /\ indices' = <<>>
    /\ pc' = "scan"

\* a direct call of get_cutoff_indices_features_and_target
CutoffStart ==
    /\ pc = "start" /\ call = "get_cutoff_indices_features_and_target"
    /\ EnterScan(data)
    /\ UNCHANGED <<call, error, year, month, raw_file, rides, agg_rides,
                   output, ts_data, input_seq_len, step_size, location_ids,
                   loc_pos, features, targets>>

\* one iteration of the while loop
ScanBody ==
    /\ pc = "scan"
    /\ LoopCondition(subseq_last_idx, stop_position)
    /\ indices' = Append(indices,
                         <<subseq_first_idx, subseq_mid_idx, subseq_last_idx>>)
    /\ subseq_first_idx' = Advance(subseq_first_idx, step_size)
    /\ subseq_mid_idx' = Advance(subseq_mid_idx, step_size)
    /\ subseq_last_idx' = Advance(subseq_last_idx, step_size)
    /\ UNCHANGED <<pc, call, error, year, month, raw_file, rides, agg_rides,
                   output, ts_data, input_seq_len, step_size, location_ids,
                   loc_pos, data, stop_position, features, targets>>

\* the loop ends and a direct call returns indices
CutoffReturn ==
    /\ pc = "scan" /\ call = "get_cutoff_indices_features_and_target"
    /\ ~LoopCondition(subseq_last_idx, stop_position)
    /\ pc' = "done"
    /\ UNCHANGED <<call, error, year, month, raw_file, rides, agg_rides,
                   output, ts_data, input_seq_len, step_size, location_ids,
                   loc_pos, data, stop_position, subseq_first_idx,
                   subseq_mid_idx, subseq_last_idx, indices, features, targets>>

-----------------------------------------------------------------------------
(* transform_ts_data_into_features_and_target *)

RequiredColumns == {"pickup_hour", "rides", "pickup_location_id"}

ColumnSets ==
    {RequiredColumns,
     RequiredColumns \cup {"foo"},
     {"pickup_hour", "pickup_location_id"}}

\* the frame add_missing_slots returns
DensifiedFrame(rows) == [columns |-> RequiredColumns, rows |-> rows]

\* columns=[f'rides_previous_{i+1}_hour' for i in reversed(range(input_seq_len))]:
\* the label N of the column at (1-based) position j
ColumnLabel(j, n) == n - j + 1

\* x[i, :] = ts_data_one_location.iloc[idx[0]:idx[1]]['rides'].values
FeatureValues(series, idx) ==
    LET w == SubSeq(series, idx[1] + 1, idx[2])
    IN [j \in DOMAIN w |-> Float32(w[j].rides)]

\* y[i] = ts_data_one_location.iloc[idx[1]:idx[2]]['rides'].values
TargetValue(series, idx) ==
    Float32(SubSeq(series, idx[2] + 1, idx[3])[1].rides)

\* pickup_hours.append(ts_data_one_location.iloc[idx[1]]['pickup_hour'])
TargetHour(series, idx) == series[idx[2] + 1].pickup_hour

FeaturesOneLocation(series, idxs, n, loc) ==
    [i \in DOMAIN idxs |->
        LET x == FeatureValues(series, idxs[i])
        IN [rides_previous |->
                [k \in 1..n |-> x[CHOOSE j \in 1..n : ColumnLabel(j, n) = k]],
            pickup_hour |-> TargetHour(series, idxs[i]),
            pickup_location_id |-> loc]]

TargetsOneLocation(series, idxs) ==
    [i \in DOMAIN idxs |-> TargetValue(series, idxs[i])]

\* the assert, then the locals set before the loop over locations
TransformStart ==
    /\ \/ /\ pc = "start"
          /\ call = "transform_ts_data_into_features_and_target"
          /\ ts_data' = ts_data
       \/ /\ pc = "densified"
          /\ ts_data' = DensifiedFrame(output)
    /\ call' = "transform_ts_data_into_features_and_target"
    /\ IF ts_data'.columns # RequiredColumns
       THEN /\ error' = "AssertionError" /\ pc' = "done"
            /\ UNCHANGED <<location_ids, loc_pos, features, targets>>
       ELSE /\ location_ids' = Unique(Column(ts_data'.rows, "pickup_location_id"))
            /\ loc_pos' = 0
            /\ features' = <<>>
            /\ targets' = <<>>
            /\ pc' = "loc_loop"
            /\ UNCHANGED error
    /\ UNCHANGED <<year, month, raw_file, rides, agg_rides, output,
                   input_seq_len, step_size, data, stop_position,
                   subseq_first_idx, subseq_mid_idx, subseq_last_idx, indices>>

\* the loop over locations takes the next one and calls the cutoff scan
LocationBegin ==
    /\ pc = "loc_loop"
    /\ loc_pos < Len(location_ids)
    /\ EnterScan(RowsOfLocation(ts_data.rows, location_ids[loc_pos + 1]))
    /\ UNCHANGED <<call, error, year, month, raw_file, rides, agg_rides,
                   output, ts_data, input_seq_len, step_size, location_ids,
                   loc_pos, features, targets>>

\* the scan returns; the rest of the loop body slices and concatenates
SliceLocation ==
    /\ pc = "scan" /\ call = "transform_ts_data_into_features_and_target"
    /\ ~LoopCondition(subseq_last_idx, stop_position)
    /\ features' = features \o FeaturesOneLocation(data, indices, input_seq_len,
                                                   location_ids[loc_pos + 1])
    /\ targets' = targets \o TargetsOneLocation(data, indices)
    /\ loc_pos' = loc_pos + 1
    /\ pc' = "loc_loop"
    /\ UNCHANGED <<call, error, year, month, raw_file, rides, agg_rides,
                   output, ts_data, input_seq_len, step_size, location_ids,
                   data, stop_position, subseq_first_idx, subseq_mid_idx,
                   subseq_last_idx, indices>>

\* reset_index and return; targets has no column when no location was seen
TransformReturn ==
    /\ pc = "loc_loop"
    /\ loc_pos = Len(location_ids)
    /\ error' = IF location_ids = <<>> THEN "KeyError" ELSE "none"
    /\ pc' = "done"
    /\ UNCHANGED <<call, year, month, raw_file, rides, agg_rides, output,
                   ts_data, input_seq_len, step_size, location_ids, loc_pos,
                   data, stop_position, subseq_first_idx, subseq_mid_idx,
                   subseq_last_idx, indices, features, targets>>

-----------------------------------------------------------------------------
(* The calls a run starts from *)

\* hourly counts of the documented scenario: [5,0,0,7,2,9,1]
ExampleCounts == <<5, 0, 0, 7, 2, 9, 1>>

\* a series of n hourly rows for one location, counts cycling through the example
SeriesRows(loc, n) ==
    [i \in 1..n |->
        [pickup_hour |-> i - 1, pickup_location_id |-> loc,
         rides |-> ExampleCounts[((i - 1) % Len(ExampleCounts)) + 1]]]

ExampleRows == SeriesRows(42, Len(ExampleCounts))

\* frames holding a series for location 42 followed by one for location 7
SeriesFrames ==
    {DensifiedFrame(SeriesRows(42, a) \o SeriesRows(7, b)) : a, b \in 0..MaxLen}

SlicerInputs ==
    {[columns |-> c, rows |-> t] : c \in ColumnSets, t \in Tables}
        \cup SeriesFrames

ScanInputs ==
    {[i \in 1..n |-> [pickup_hour |-> i - 1, rides |-> 0]] : n \in 0..MaxLen}

NoFrame == [columns |-> {}, rows |-> <<>>]

Idle ==
    /\ pc = "start" /\ error = "none"
    /\ rides = <<>> /\ output = <<>>
    /\ location_ids = <<>> /\ loc_pos = 0
    /\ stop_position = 0
    /\ subseq_first_idx = 0 /\ subseq_mid_idx = 0 /\ subseq_last_idx = 0
    /\ indices = <<>> /\ features = <<>> /\ targets = <<>>

Init ==
    /\ Idle
    /\ \/ /\ call = "validate_raw_data"
          /\ year \in Years /\ month \in Months /\ raw_file \in RawFiles
          /\ agg_rides = <<>> /\ ts_data = NoFrame /\ data = <<>>
          /\ input_seq_len = 1 /\ step_size = 1
       \/ /\ call = "add_missing_slots"
          /\ agg_rides \in Tables
          /\ input_seq_len \in 1..MaxSeqLen /\ step_size \in 1..MaxStep
          /\ year = 0 /\ month = 0 /\ raw_file = <<>>
          /\ ts_data = NoFrame /\ data = <<>>
       \/ /\ call = "transform_ts_data_into_features_and_target"
          /\ ts_data \in SlicerInputs
          /\ input_seq_len \in 1..MaxSeqLen /\ step_size \in 1..MaxStep
          /\ year = 0 /\ month = 0 /\ raw_file = <<>>
          /\ agg_rides = <<>> /\ data = <<>>
       \/ /\ call = "get_cutoff_indices_features_and_target"
          /\ data \in ScanInputs
          /\ input_seq_len \in 1..MaxSeqLen /\ step_size \in 1..MaxStep
          /\ year = 0 /\ month = 0 /\ raw_file = <<>>
          /\ agg_rides = <<>> /\ ts_data = NoFrame

Next ==
    \/ ValidateRawData
    \/ AddMissingSlots
    \/ CutoffStart
    \/ ScanBody
    \/ CutoffReturn
    \/ TransformStart
    \/ LocationBegin
    \/ SliceLocation
    \/ TransformReturn

Spec == Init /\ [][Next]_vars

\* the interpreter keeps executing the loop it is in
FairSpec == Spec /\ WF_vars(ScanBody) /\ WF_vars(CutoffReturn) /\ WF_vars(SliceLocation)

-----------------------------------------------------------------------------
(* Properties *)

Slicer == "transform_ts_data_into_features_and_target"
Scanner == "get_cutoff_indices_features_and_target"

\* add_missing_slots has been called on agg_rides and has finished
DensifierCalled == agg_rides # <<>> /\ pc # "start"

AtMostOneRowPerSlot(t) ==
    \A i, j \in DOMAIN t :
        (t[i].pickup_hour = t[j].pickup_hour
            /\ t[i].pickup_location_id = t[j].pickup_location_id) => i = j

LocationsOf(t) == {t[i].pickup_location_id : i \in DOMAIN t}
HoursOf(t) == {t[i].pickup_hour : i \in DOMAIN t}

RowsAt(t, h, l) ==
    {i \in DOMAIN t : t[i].pickup_hour = h /\ t[i].pickup_location_id = l}

\* C1: for a non-empty input with at most one row per (hour, location),
\* add_missing_slots returns exactly one row for every location of the input
\* and every hour between the minimum and the maximum hour of the whole
\* input, and no other row.
C1_DensificationCompleteness ==
    (DensifierCalled /\ AtMostOneRowPerSlot(agg_rides)) =>
        /\ error = "none"
        /\ \A l \in LocationsOf(agg_rides) :
             \A h \in Min(HoursOf(agg_rides))..Max(HoursOf(agg_rides)) :
                Cardinality(RowsAt(output, h, l)) = 1
        /\ \A i \in DOMAIN output :
             /\ output[i].pickup_location_id \in LocationsOf(agg_rides)
             /\ output[i].pickup_hour >= Min(HoursOf(agg_rides))
             /\ output[i].pickup_hour <= Max(HoursOf(agg_rides))

\* two locations observed at different single hours: each gets the whole range
C1_Witness ==
    /\ DensifierCalled /\ AtMostOneRowPerSlot(agg_rides)
    /\ Len(agg_rides) = 2
    /\ agg_rides[1].pickup_location_id = 7 /\ agg_rides[1].pickup_hour = 0
    /\ agg_rides[2].pickup_location_id = 42 /\ agg_rides[2].pickup_hour = 3
    /\ Len(output) = 8

\* C2: for a non-empty input with at most one row per (hour, location), an
\* output row whose (hour, location) is in the input carries the input's
\* rides, and an output row whose (hour, location) is not in the input
\* carries 0.
C2_ZeroFillCorrectness ==
    (DensifierCalled /\ AtMostOneRowPerSlot(agg_rides)) =>
        /\ output # <<>>
        /\ \A i \in DOMAIN output :
             LET src == RowsAt(agg_rides, output[i].pickup_hour,
                               output[i].pickup_location_id)
             IN IF src = {} THEN output[i].rides = 0
                ELSE \A j \in src : output[i].rides = agg_rides[j].rides

\* location 42 observed at hours 0 and 3 with counts 4 and 6
C2_Witness ==
    /\ DensifierCalled
    /\ agg_rides = <<[pickup_hour |-> 0, pickup_location_id |-> 42, rides |-> 4],
                     [pickup_hour |-> 3, pickup_location_id |-> 42, rides |-> 6]>>
    /\ Column(output, "rides") = <<4, 0, 0, 6>>
    /\ Column(output, "pickup_hour") = <<0, 1, 2, 3>>

\* the slicer was called with the required columns and has returned or raised
SlicerFinished ==
    call = Slicer /\ pc = "done" /\ ts_data.columns = RequiredColumns

SeriesLength(l) == Len(RowsOfLocation(ts_data.rows, l))

WindowCount(len, offset) ==
    LET c == ((len - input_seq_len - offset) \div step_size) + 1
    IN IF c > 0 THEN c ELSE 0

ExpectedRows(offset) ==
    LET locs == Unique(Column(ts_data.rows, "pickup_location_id"))
    IN SumSeq([i \in DOMAIN locs |-> WindowCount(SeriesLength(locs[i]), offset)])

\* C3 as stated: the slicer returns as many feature rows as targets, the sum
\* over locations of max(0, floor((L - input_seq_len - 1) / step_size) + 1).
C3_RowCountAsStated ==
    SlicerFinished =>
        /\ error = "none"
        /\ Len(features) = Len(targets)
        /\ Len(features) = ExpectedRows(1)

\* C3 amended: for a table with at least one row the slicer returns as many
\* feature rows as targets, the sum over locations of
\* max(0, floor((L - input_seq_len - 2) / step_size) + 1).
C3_RowCount ==
    (SlicerFinished /\ ts_data.rows # <<>>) =>
        /\ error = "none"
        /\ Len(features) = Len(targets)
        /\ Len(features) = ExpectedRows(2)

\* two locations with series of different lengths, both yielding windows
C3_Witness ==
    /\ SlicerFinished /\ error = "none"
    /\ Len(location_ids) = 2
    /\ SeriesLength(location_ids[1]) > SeriesLength(location_ids[2])
    /\ \A i \in 1..2 : \E j \in DOMAIN features :
           features[j].pickup_location_id = location_ids[i]
    /\ step_size = 2
    /\ Len(features) >= 4

\* the scan of data has ended and its locals are still in place
ScanReturned ==
    \/ call = Scanner /\ pc = "done"
    \/ call = Slicer /\ pc \in {"loc_loop", "done"} /\ loc_pos > 0

Triple(k) ==
    <<k * step_size, k * step_size + input_seq_len,
      k * step_size + input_seq_len + 1>>

\* the window of feature row i, oldest hour first
Window(i) ==
    [j \in 1..input_seq_len |-> features[i].rides_previous[input_seq_len - j + 1]]

\* C4: the scan returns, for k = 0, 1, ..., exactly the triples
\* (k*s, k*s + n, k*s + n + 1) whose end is at most L - 1; the first triple
\* left out has end > L - 1.  For counts [5,0,0,7,2,9,1], n = 3, s = 1 the
\* first window is [5,0,0] with target 7 at index 3, the second [0,0,7] with
\* target 2.
C4_CutoffTriples ==
    /\ pc \in {"scan", "loc_loop", "done"} =>
         \A k \in DOMAIN indices :
            /\ indices[k] = Triple(k - 1)
            /\ indices[k][3] <= Len(data) - 1
    /\ ScanReturned => Triple(Len(indices))[3] > Len(data) - 1
    /\ (SlicerFinished /\ ts_data.rows = ExampleRows
            /\ input_seq_len = 3 /\ step_size = 1) =>
         /\ Len(features) >= 2
         /\ Window(1) = <<5, 0, 0>> /\ targets[1] = 7
         /\ features[1].pickup_hour = 3
         /\ Window(2) = <<0, 0, 7>> /\ targets[2] = 2

\* the documented scenario has been sliced: three triples, the last at the
\* end of the series
C4_Witness ==
    /\ SlicerFinished /\ error = "none"
    /\ ts_data.rows = ExampleRows /\ input_seq_len = 3 /\ step_size = 1
    /\ indices = <<<<0, 3, 4>>, <<1, 4, 5>>, <<2, 5, 6>>>>
    /\ Len(features) = 3

\* the slicer was given what add_missing_slots returned, and has returned
SlicedDensified ==
    /\ call = Slicer /\ pc = "done" /\ error = "none"
    /\ output # <<>> /\ ts_data.rows = output

RidesIs(l, h, v) ==
    \E j \in DOMAIN output :
        /\ output[j].pickup_location_id = l
        /\ output[j].pickup_hour = h
        /\ output[j].rides = v

\* C5: on the output of add_missing_slots, the feature row of location L and
\* hour T has rides_previous_k_hour equal to the rides of L at hour T - k for
\* every k in 1..input_seq_len, and the target at the same position equals
\* the rides of L at hour T.
C5_WindowAlignment ==
    SlicedDensified =>
        /\ Len(features) = Len(targets)
        /\ \A i \in DOMAIN features :
             LET l == features[i].pickup_location_id
                 t == features[i].pickup_hour
             IN /\ \A k \in 1..input_seq_len :
                      RidesIs(l, t - k, features[i].rides_previous[k])
                /\ RidesIs(l, t, targets[i])

ShortLocations ==
    {l \in LocationsOf(ts_data.rows) : SeriesLength(l) <= input_seq_len + 1}

\* C6: a location whose series has at most input_seq_len + 1 rows yields no
\* window and no target and raises nothing; the other locations of the same
\* call still yield theirs.
C6_ShortSeries ==
    (SlicerFinished /\ ShortLocations # {}) =>
        /\ error = "none"
        /\ Len(features) = Len(targets)
        /\ \A i \in DOMAIN features :
             features[i].pickup_location_id \notin ShortLocations
        /\ \A l \in LocationsOf(ts_data.rows) \ ShortLocations :
             \E i \in DOMAIN features : features[i].pickup_location_id = l

\* a short series next to one that yields windows
C6_Witness ==
    /\ SlicerFinished /\ error = "none"
    /\ ShortLocations = {7}
    /\ SeriesLength(7) = input_seq_len + 1
    /\ SeriesLength(42) > input_seq_len + 1
    /\ Len(features) > 0

\* C7: add_missing_slots called with no observations fails with an
\* EmptyInputError.
C7_EmptyInputError ==
    (call = "add_missing_slots" /\ agg_rides = <<>> /\ pc # "start") =>
        /\ pc = "done"
        /\ error = "EmptyInputError"

\* C8: the slicer fails with a SchemaError exactly when the column set is not
\* {pickup_hour, pickup_location_id, rides}, before any window is produced.
C8_SchemaError ==
    (call = Slicer /\ pc # "start") =>
        /\ (ts_data.columns # RequiredColumns) =>
              (pc = "done" /\ error = "SchemaError" /\ features = <<>>)
        /\ (ts_data.columns = RequiredColumns) => error # "SchemaError"

NextMonthStart(y, m) ==
    IF m = 12 THEN [y |-> y + 1, m |-> 1, d |-> 1] ELSE [y |-> y, m |-> m + 1, d |-> 1]

InMonth(r) ==
    /\ r.pickup_datetime # NaT
    /\ ~Before(r.pickup_datetime, [y |-> year, m |-> month, d |-> 1])
    /\ Before(r.pickup_datetime, NextMonthStart(year, month))

\* C9: for every year and every month 1..12, validate_raw_data returns
\* exactly the rows of the month's file whose pickup timestamp lies in
\* [first day of the month, first day of the next calendar month).
C9_MonthFilter ==
    (call = "validate_raw_data" /\ pc = "done") =>
        /\ error = "none"
        /\ rides = SelectSeq(raw_file, InMonth)

\* C10: the cutoff scan terminates, subseq_last_idx grows in every
\* iteration, and every appended triple satisfies
\* 0 <= start < mid < end <= L - 1.
C10_ScanTerminatesInBounds ==
    /\ [](\A k \in DOMAIN indices :
            /\ 0 <= indices[k][1]
            /\ indices[k][1] < indices[k][2]
            /\ indices[k][2] < indices[k][3]
            /\ indices[k][3] <= Len(data) - 1)
    /\ [][(pc = "scan" /\ pc' = "scan") => subseq_last_idx' > subseq_last_idx]_vars
    /\ (pc = "scan") ~> (pc # "scan")

\* a direct scan of a series of 7 rows has returned five triples
C10_Witness ==
    /\ call = Scanner /\ pc = "done"
    /\ Len(data) = 7 /\ input_seq_len = 1 /\ step_size = 1
    /\ Len(indices) = 5

====
